---- MODULE Spec2Model ----
(***************************************************************************)
(* Model of scripts/generate_commit.py: one run of main(), from the query  *)
(* of the staged files to the optional `git commit`.                       *)
(*                                                                         *)
(* Strings are sequences of code points.  The text of the model reply is a *)
(* sequence of tokens: an opening brace, a closing brace, a prose word, or *)
(* the brace-free payload of a JSON object.                                *)
(***************************************************************************)
EXTENDS Integers, Sequences, FiniteSets, TLC

VARIABLES pc, api_key, changed_files, diff, reply, commit_message_json,
          commit_data, formatted_message, git_command, answer,
          commit_result, trace, console, error, escaped

vars == <<pc, api_key, changed_files, diff, reply, commit_message_json,
          commit_data, formatted_message, git_command, answer,
          commit_result, trace, console, error, escaped>>

(* ------------------------------ bounds --------------------------------- *)

MaxFiles == 2

MaxProse == 1

MaxTitleLen == 52

MaxChangeLen == 74

(* ------------------------------ strings -------------------------------- *)

NoneVal == [none |-> TRUE]

NL == 10

SP == 32

DASH == 45

COLON == 58

Min(a, b) == IF a < b THEN a ELSE b

\* a string of n letters whose letter depends on its position
Str(n) == [i \in 1..n |-> 97 + (i % 7)]

\* Python's s[:n]
Take(s, n) == SubSeq(s, 1, Min(n, Len(s)))

\* the lines of a text, split at NL (str.splitlines): a line ends at each
\* NL, and at the end of the text when the text does not end with NL
Lines(s) ==
    LET ends == {i \in 1..Len(s) : s[i] = NL}
                \cup (IF Len(s) > 0 /\ s[Len(s)] # NL THEN {Len(s) + 1} ELSE {})
        kth(k) == CHOOSE i \in ends : Cardinality({j \in ends : j <= i}) = k
        start(k) == IF k = 1 THEN 1 ELSE kth(k - 1) + 1
    IN  [k \in 1..Cardinality(ends) |-> SubSeq(s, start(k), kth(k) - 1)]

(* ------------------------- the parsed response ------------------------- *)

Keys == <<"title", "body", "summary">>

TitleLimit == 50

TitleLens == {1} \cup ((TitleLimit - 1)..MaxTitleLen)

ChangeLens == {2} \cup ((MaxChangeLen - 3)..MaxChangeLen)

Category(name, changes) ==
    [category |-> name, content |-> [emoji |-> <<128295>>, changes |-> changes]]

\* the body mapping, in insertion order
Bodies ==
    {<<>>}
    \cup {<<Category(<<67>>, <<Str(n)>>)>> : n \in ChangeLens}
    \cup {<<Category(<<67>>, <<Str(2)>>), Category(<<68>>, <<Str(n), Str(2)>>)>> :
             n \in ChangeLens}

FullObjects ==
    {[title |-> Str(t), body |-> b, summary |-> Str(5)] : t \in TitleLens, b \in Bodies}

KeySets == {{"title", "body", "summary"}, {"body", "summary"},
            {"title", "summary"}, {"title", "body"}, {}}

\* JSON objects the model may answer with, some of them lacking keys
Objects == {[k \in ks |-> d[k]] : d \in FullObjects, ks \in KeySets}

(* --------------------------- the reply text ---------------------------- *)

LB == [k |-> "lbrace"]

RB == [k |-> "rbrace"]

WORD == [k |-> "word"]

Payload(d) == [k |-> "payload", v |-> d]

\* the JSON text of an object: the body mapping is a nested pair of braces
ObjText(d) ==
    IF DOMAIN d = {} THEN <<LB, RB>>
    ELSE <<LB, Payload(d)>>
         \o (IF "body" \in DOMAIN d THEN <<LB, RB>> ELSE <<>>)
         \o <<RB>>

RECURSIVE SeqsUpTo(_, _)
SeqsUpTo(S, n) ==
    IF n = 0 THEN {<<>>}
    ELSE LET shorter == SeqsUpTo(S, n - 1)
         IN  shorter \cup {Append(s, x) : s \in shorter, x \in S}

Prose == SeqsUpTo({WORD, LB, RB}, MaxProse)

\* what stands between the leading and the trailing prose
Middles == {ObjText(d) : d \in Objects} \cup {<<>>, <<LB, WORD, RB>>}

Replies == [lead : Prose, mid : Middles, trail : Prose]

Content(r) == r.lead \o r.mid \o r.trail

(* ----------------------- generate_commit_message ---------------------- *)

KeyMissingUnsetOnly(k) == k = NoneVal

\* `not api_key`: the variable is unset or is the empty string
KeyMissing(k) == k = NoneVal \/ k = <<>>

\* re.search(r'\{.*\}', content, re.DOTALL): the leftmost opening brace that
\* has a closing brace after it, up to the last closing brace of the text
\* (.* is greedy and DOTALL lets it cross line ends); NoneVal without a match
re_search(content) ==
    LET opens == {i \in 1..Len(content) :
                     /\ content[i] = LB
                     /\ \E j \in (i + 1)..Len(content) : content[j] = RB}
    IN  IF opens = {} THEN NoneVal
        ELSE LET i == CHOOSE a \in opens : \A b \in opens : a <= b
                 closes == {j \in (i + 1)..Len(content) : content[j] = RB}
                 j == CHOOSE a \in closes : \A b \in closes : a >= b
             IN  SubSeq(content, i, j)

(* ------------------------------ json.loads ----------------------------- *)

\* the text is exactly the text of one JSON object
IsJSON(s) ==
    /\ Len(s) >= 2
    /\ \/ s = <<LB, RB>>
       \/ /\ s[2].k = "payload"
          /\ s = ObjText(s[2].v)

json_loads(s) == IF s = <<LB, RB>> THEN <<>> ELSE s[2].v

(* ------------------------ format_commit_message ------------------------ *)

\* the key whose lookup raises KeyError, "" when all three are present
RECURSIVE MissingKeyFrom(_, _)
MissingKeyFrom(d, i) ==
    IF i > Len(Keys) THEN ""
    ELSE IF Keys[i] \notin DOMAIN d THEN Keys[i]
    ELSE MissingKeyFrom(d, i + 1)

MissingKey(d) == MissingKeyFrom(d, 1)

FormatTitleNoTruncation(t) == t

\* commit_data['title'][:50]
FormatTitle(t) == Take(t, TitleLimit)

RECURSIVE FormatChanges(_, _)
FormatChanges(changes, i) ==
    IF i > Len(changes) THEN <<>>
    ELSE <<DASH, SP>> \o changes[i] \o <<NL>> \o FormatChanges(changes, i + 1)

RECURSIVE FormatCategories(_, _)
FormatCategories(body, i) ==
    IF i > Len(body) THEN <<>>
    ELSE body[i].content.emoji \o <<SP>> \o body[i].category \o <<COLON, NL>>
         \o FormatChanges(body[i].content.changes, 1) \o <<NL>>
         \o FormatCategories(body, i + 1)

format_commit_message(d) ==
    FormatTitle(d.title) \o <<NL, NL>> \o FormatCategories(d.body, 1)
    \o d.summary \o <<NL>>

(* --------------------------------- main -------------------------------- *)

ApiKeys == {NoneVal, <<>>, Str(3)}

FileLists == {[i \in 1..n |-> i] : n \in 0..MaxFiles}

Init ==
    /\ pc = "start"
    /\ api_key \in ApiKeys
    /\ changed_files = NoneVal
    /\ diff = NoneVal
    /\ reply = NoneVal
    /\ commit_message_json = NoneVal
    /\ commit_data = NoneVal
    /\ formatted_message = NoneVal
    /\ git_command = NoneVal
    /\ answer = "unasked"
    /\ commit_result = "none"
    /\ trace = <<>>
    /\ console = <<"analyzing">>
    /\ error = "none"
    /\ escaped = "none"

NoChangesNever(files) == FALSE

\* `not changed_files`
NoChanges(files) == files = <<>>

HandlerFallsToCommit == "commit"

\* the `return` that ends each except clause of main
HandlerReturn == "done"

\* an except clause of main: print the error, return
Handle(exc, msg) ==
    /\ error' = exc
    /\ console' = Append(console, msg)
    /\ pc' = HandlerReturn

\* changed_files = get_changed_files(), outside any try
GetChangedFiles ==
    /\ pc = "start"
    /\ trace' = Append(trace, "files")
    /\ \/ /\ escaped' = "CalledProcessError"
          /\ pc' = "raised"
          /\ UNCHANGED <<changed_files, console>>
       \/ \E files \in FileLists :
            /\ changed_files' = files
            /\ IF NoChanges(files)
               THEN /\ console' = Append(console, "no_changes")
                    /\ pc' = "done"
               ELSE /\ console' = Append(console, "changes_detected")
                    /\ pc' = "get_diff"
            /\ UNCHANGED escaped
    /\ UNCHANGED <<api_key, diff, reply, commit_message_json, commit_data,
                   formatted_message, git_command, answer, commit_result, error>>

\* diff = get_diff(), outside any try
GetDiff ==
    /\ pc = "get_diff"
    /\ trace' = Append(trace, "diff")
    /\ \/ /\ escaped' = "CalledProcessError"
          /\ pc' = "raised"
          /\ UNCHANGED diff
       \/ /\ diff' = Str(4)
          /\ pc' = "generate"
          /\ UNCHANGED escaped
    /\ UNCHANGED <<api_key, changed_files, reply, commit_message_json,
                   commit_data, formatted_message, git_command, answer,
                   commit_result, console, error>>

\* generate_commit_message(prompt) inside the try of main
GenerateCommitMessage ==
    /\ pc = "generate"
    /\ IF KeyMissing(api_key)
       THEN /\ Handle("ValueError", "error_generate")
            /\ UNCHANGED <<trace, reply, commit_message_json>>
       ELSE /\ trace' = Append(trace, "post")
            /\ \/ /\ Handle("HTTPError", "error_generate")
                  /\ UNCHANGED <<reply, commit_message_json>>
               \/ \E r \in Replies :
                    /\ reply' = r
                    /\ IF re_search(Content(r)) = NoneVal
                       THEN /\ Handle("AttributeError", "error_generate")
                            /\ UNCHANGED commit_message_json
                       ELSE /\ commit_message_json' = re_search(Content(r))
                            /\ pc' = "parse"
                            /\ UNCHANGED <<error, console>>
    /\ UNCHANGED <<api_key, changed_files, diff, commit_data,
                   formatted_message, git_command, answer, commit_result,
                   escaped>>

\* json.loads and format_commit_message inside the try of main
ParseAndFormat ==
    /\ pc = "parse"
    /\ IF ~IsJSON(commit_message_json)
       THEN /\ Handle("JSONDecodeError", "error_json")
            /\ UNCHANGED <<commit_data, formatted_message>>
       ELSE /\ commit_data' = json_loads(commit_message_json)
            /\ IF MissingKey(commit_data') # ""
               THEN /\ Handle("KeyError", "error_missing_key")
                    /\ UNCHANGED formatted_message
               ELSE /\ formatted_message' = format_commit_message(commit_data')
                    /\ pc' = "confirm"
                    /\ UNCHANGED <<error, console>>
    /\ UNCHANGED <<api_key, changed_files, diff, reply, commit_message_json,
                   git_command, answer, commit_result, trace, escaped>>

ShouldExecuteAlways(ans) == TRUE

\* the branch on Confirm.ask(...)
ShouldExecute(ans) == ans

\* print the message, build and print the command, ask for confirmation.
\* The command is kept as its two -m segments.
ConfirmAsk ==
    /\ pc = "confirm"
    /\ git_command' = [title |-> commit_data["title"], message |-> formatted_message]
    /\ trace' = Append(trace, "prompt")
    /\ \E ans \in BOOLEAN :
         /\ answer' = (IF ans THEN "yes" ELSE "no")
         /\ IF ShouldExecute(ans)
            THEN /\ console' = console \o <<"message", "command">>
                 /\ pc' = "commit"
            ELSE /\ console' = console \o <<"message", "command", "not_executed",
                                           "completed">>
                 /\ pc' = "done"
    /\ UNCHANGED <<api_key, changed_files, diff, reply, commit_message_json,
                   commit_data, formatted_message, commit_result, error, escaped>>

AfterCommitRetry(ok) == IF ok THEN "done" ELSE "commit"

\* where main goes after subprocess.run returned or raised
AfterCommit(ok) == "done"

\* subprocess.run(git_command, shell=True, check=True) and its except clause
Commit ==
    /\ pc = "commit"
    /\ trace' = Append(trace, "commit")
    /\ \E ok \in BOOLEAN :
         /\ commit_result' = (IF ok THEN "ok" ELSE "failed")
         /\ console' = console \o
                <<IF ok THEN "commit_ok" ELSE "commit_failed">>
                \o (IF AfterCommit(ok) = "done" THEN <<"completed">> ELSE <<>>)
         /\ pc' = AfterCommit(ok)
    /\ UNCHANGED <<api_key, changed_files, diff, reply, commit_message_json,
                   commit_data, formatted_message, git_command, answer, error,
                   escaped>>

Next ==
    \/ GetChangedFiles
    \/ GetDiff
    \/ GenerateCommitMessage
    \/ ParseAndFormat
    \/ ConfirmAsk
    \/ Commit

Spec == Init /\ [][Next]_vars

(* ------------------------------ properties ----------------------------- *)

Range(s) == {s[i] : i \in DOMAIN s}

Last(s) == s[Len(s)]

IsPrefix(s, t) == Len(s) <= Len(t) /\ s = SubSeq(t, 1, Len(s))

ErrorMessage(exc) ==
    IF exc = "JSONDecodeError" THEN "error_json"
    ELSE IF exc = "KeyError" THEN "error_missing_key"
    ELSE "error_generate"

\* C1: once an error occurred inside the try block of main (no credential,
\* HTTP error, no brace-delimited object, invalid JSON, missing key), the
\* error was reported, main returned, and the commit was not invoked.
C1_ErrorNeverCommits ==
    error # "none" =>
        /\ error \in {"ValueError", "HTTPError", "AttributeError",
                      "JSONDecodeError", "KeyError"}
        /\ Last(console) = ErrorMessage(error)
        /\ pc = "done"
        /\ escaped = "none"
        /\ "commit" \notin Range(trace)
        /\ commit_result = "none"

C1_Witness ==
    /\ error = "KeyError"
    /\ "title" \in DOMAIN commit_data
    /\ "body" \notin DOMAIN commit_data
    /\ pc = "done"

\* C2: after a negative answer to the confirmation prompt the commit is not
\* invoked, "not executed" is reported and the run completes normally.
C2_DeclineNeverCommits ==
    answer = "no" =>
        /\ "commit" \notin Range(trace)
        /\ commit_result = "none"
        /\ "not_executed" \in Range(console)
        /\ Last(console) = "completed"
        /\ pc = "done"
        /\ escaped = "none"

C2_Witness == answer = "no" /\ pc = "done" /\ git_command # NoneVal

\* C3: with an empty staged file list main reports "no changes" and ends
\* having issued only the staged-file query: no diff query, no HTTPS call,
\* no prompt, no commit.
C3_NoChangesNoCall ==
    changed_files = <<>> =>
        /\ console = <<"analyzing", "no_changes">>
        /\ trace = <<"files">>
        /\ pc = "done"
        /\ escaped = "none"

C3_Witness == changed_files = <<>> /\ pc = "done"

\* C4: every error, a failure of the staged-file or staged-diff query
\* included, is caught inside main: no exception escapes main.
C4_NoExceptionEscapes == escaped = "none" /\ pc # "raised"

\* C5: with OPENAI_API_KEY absent or empty no HTTPS request is ever issued
\* and the confirmation prompt is never reached; generate_commit_message
\* fails with the ValueError, which is reported.
C5_NoKeyNoRequest ==
    (api_key = NoneVal \/ api_key = <<>>) =>
        /\ "post" \notin Range(trace)
        /\ "prompt" \notin Range(trace)
        /\ "commit" \notin Range(trace)
        /\ reply = NoneVal
        /\ (pc = "done" /\ "diff" \in Range(trace)) =>
               /\ error = "ValueError"
               /\ Last(console) = "error_generate"

C5_Witness == api_key = <<>> /\ error = "ValueError" /\ pc = "done"

\* C6: the title line of the formatted message is the first 50 characters
\* of the generated title when it is longer than 50 characters, and the
\* generated title unchanged otherwise.
C6_TitleLine ==
    formatted_message # NoneVal =>
        LET t == commit_data["title"]
        IN  Lines(formatted_message)[1] =
                IF Len(t) > 50 THEN SubSeq(t, 1, 50) ELSE t

C6_Witness ==
    /\ formatted_message # NoneVal
    /\ Len(commit_data["title"]) > 50
    /\ Len(Lines(formatted_message)[1]) = 50

IsBullet(line) == Len(line) >= 2 /\ line[1] = DASH /\ line[2] = SP

\* C7: every bullet line of the formatted message has at most 72 characters.
C7_BulletLines ==
    formatted_message # NoneVal =>
        LET lines == Lines(formatted_message)
        IN  \A i \in DOMAIN lines : IsBullet(lines[i]) => Len(lines[i]) <= 72

\* C8: for a reply made of leading prose, one well-formed JSON object and
\* trailing prose, generate_commit_message returns exactly the text of that
\* object.
C8_ExtractsObject ==
    (reply # NoneVal /\ IsJSON(reply.mid) /\ pc \in {"parse", "confirm", "commit", "done"}) =>
        commit_message_json = reply.mid

Order == <<"files", "diff", "post", "prompt", "commit">>

\* C9: the external actions happen at most once each and in the order
\* staged-file query, staged-diff query, HTTPS call, prompt, commit; the
\* commit follows an affirmative answer, which follows a successful HTTPS
\* call and a parsed and formatted response; a failed commit is reported
\* and not retried.
C9_OrderedOnce ==
    /\ IsPrefix(trace, Order)
    /\ "prompt" \in Range(trace) =>
           /\ reply # NoneVal
           /\ error = "none"
           /\ commit_data # NoneVal
           /\ formatted_message # NoneVal
    /\ "commit" \in Range(trace) => answer = "yes"
    /\ commit_result = "failed" =>
           /\ "commit_failed" \in Range(console)
           /\ "commit_ok" \notin Range(console)
           /\ pc = "done"

C9_Witness ==
    /\ commit_result = "failed"
    /\ trace = Order
    /\ pc = "done"

\* C10: the title passed to the commit as first message segment has at most
\* 50 characters and equals the title line of the formatted message.
C10_CommitTitle ==
    "commit" \in Range(trace) =>
        /\ Len(git_command.title) <= 50
        /\ git_command.title = Lines(formatted_message)[1]

====
